---- MODULE Spec2Model ----
(***************************************************************************)
(* Model of go-eth2-client:                                                *)
(*   http/spec.go   Service.Spec  - double-checked, mutex-guarded fetch of *)
(*                  the chain configuration, per-key decoding of the raw   *)
(*                  string payload and patching of missing constants;      *)
(*   package multi  Service.Fork  - typed wrapper around the multi client's*)
(*                  doCall failover loop.                                  *)
(* Strings are TLA+ strings (TLC evaluates Len, SubSeq and \o on them).    *)
(* 64-bit integers are four 16-bit limbs, most significant first, so that  *)
(* the range checks of strconv and the wrap-around of the duration         *)
(* multiplication keep their width.                                        *)
(***************************************************************************)
EXTENDS Integers, Sequences, FiniteSets, TLC

(***************************************************************************)
(* Bounds of the model.                                                    *)
(***************************************************************************)
NumProcs == 3        \* goroutines calling Service.Spec
MaxCalls == 4        \* Service.Spec calls started in one behaviour
MaxKeys == 2         \* keys of a raw payload built from CoreValues
MaxValLen == 3       \* length of the exhaustively enumerated values
MaxHandles == 3      \* clients registered with the multi service

\* A Go map value: the nil map, or a map with the given entries.
NilMap == [isNil |-> TRUE, entries |-> <<>>]

MapOf(entries) == [isNil |-> FALSE, entries |-> entries]

\* A nil error.
NoError == "nil"

\* specMutex when no goroutine holds it.
Unlocked == 0

(***************************************************************************)
(* package strings                                                         *)
(***************************************************************************)
HasPrefix(s, prefix) ==
    Len(s) >= Len(prefix) /\ SubSeq(s, 1, Len(prefix)) = prefix

HasSuffix(s, suffix) ==
    Len(s) >= Len(suffix) /\ SubSeq(s, Len(s) - Len(suffix) + 1, Len(s)) = suffix

TrimPrefix(s, prefix) ==
    IF HasPrefix(s, prefix) THEN SubSeq(s, Len(prefix) + 1, Len(s)) ELSE s

CharAt(s, i) == SubSeq(s, i, i)

(***************************************************************************)
(* package encoding/hex                                                    *)
(***************************************************************************)
fromHexChar ==
    [c \in {"0", "1", "2", "3", "4", "5", "6", "7", "8", "9",
            "a", "b", "c", "d", "e", "f", "A", "B", "C", "D", "E", "F"} |->
        CASE c = "0" -> 0 [] c = "1" -> 1 [] c = "2" -> 2 [] c = "3" -> 3
          [] c = "4" -> 4 [] c = "5" -> 5 [] c = "6" -> 6 [] c = "7" -> 7
          [] c = "8" -> 8 [] c = "9" -> 9
          [] c \in {"a", "A"} -> 10 [] c \in {"b", "B"} -> 11
          [] c \in {"c", "C"} -> 12 [] c \in {"d", "D"} -> 13
          [] c \in {"e", "E"} -> 14 [] c \in {"f", "F"} -> 15]

\* hex.DecodeString: err is non-nil for an odd length or a non-hex character.
HexDecodeString(s) ==
    IF Len(s) % 2 = 0 /\ \A i \in 1..Len(s) : CharAt(s, i) \in DOMAIN fromHexChar
    THEN [err |-> FALSE,
          val |-> [i \in 1..(Len(s) \div 2) |->
                      16 * fromHexChar[CharAt(s, 2 * i - 1)]
                         + fromHexChar[CharAt(s, 2 * i)]]]
    ELSE [err |-> TRUE, val |-> <<>>]

\* Variant: the bytes are placed at the end of the array.
CopyInto4RightAligned(byteVal) ==
    [i \in 1..4 |-> IF i > 4 - Len(byteVal) /\ i - (4 - Len(byteVal)) >= 1
                     THEN byteVal[i - (4 - Len(byteVal))] ELSE 0]

\* var a [4]byte; copy(a[:], byteVal): the first min(4, len) bytes, rest zero.
CopyInto4(byteVal) ==
    [i \in 1..4 |-> IF i <= Len(byteVal) THEN byteVal[i] ELSE 0]

(***************************************************************************)
(* 64-bit words: <<l1, l2, l3, l4>>, value l1*2^48 + l2*2^32 + l3*2^16 + l4 *)
(***************************************************************************)
LimbBase == 65536

Zero64 == <<0, 0, 0, 0>>

\* w * 10 + d over 64 bits: the low 64 bits and the carry out of bit 63.
MulAdd10(w, d) ==
    LET t4 == w[4] * 10 + d
        t3 == w[3] * 10 + (t4 \div LimbBase)
        t2 == w[2] * 10 + (t3 \div LimbBase)
        t1 == w[1] * 10 + (t2 \div LimbBase)
    IN [val |-> <<t1 % LimbBase, t2 % LimbBase, t3 % LimbBase, t4 % LimbBase>>,
        carry |-> t1 \div LimbBase]

\* Two's complement negation over 64 bits.
Neg64(w) ==
    LET n4 == (LimbBase - 1 - w[4]) + 1
        n3 == (LimbBase - 1 - w[3]) + (n4 \div LimbBase)
        n2 == (LimbBase - 1 - w[2]) + (n3 \div LimbBase)
        n1 == (LimbBase - 1 - w[1]) + (n2 \div LimbBase)
    IN <<n1 % LimbBase, n2 % LimbBase, n3 % LimbBase, n4 % LimbBase>>

(***************************************************************************)
(* package strconv                                                         *)
(***************************************************************************)
Digits == {"0", "1", "2", "3", "4", "5", "6", "7", "8", "9"}

RECURSIVE ParseDigits(_, _, _)
\* The digit loop of strconv.ParseUint(s, 10, 64) from position i with
\* accumulator acc: a syntax error on a non-digit, a range error when the
\* value passes 2^64 - 1.
ParseDigits(s, i, acc) ==
    IF i > Len(s) THEN [err |-> FALSE, val |-> acc]
    ELSE IF CharAt(s, i) \notin Digits THEN [err |-> TRUE, val |-> Zero64]
    ELSE LET r == MulAdd10(acc, fromHexChar[CharAt(s, i)])
         IN IF r.carry > 0 THEN [err |-> TRUE, val |-> Zero64]
            ELSE ParseDigits(s, i + 1, r.val)

\* strconv.ParseUint(s, 10, 64): no sign, no underscores, at least one digit.
ParseUint(s) ==
    IF s = "" THEN [err |-> TRUE, val |-> Zero64] ELSE ParseDigits(s, 1, Zero64)

\* Variant: the value is parsed as an unsigned integer, so a sign is an error.
ParseIntAsUint(s) == ParseUint(s)

\* strconv.ParseInt(s, 10, 64): optional sign, magnitude through ParseUint,
\* range error above 2^63 - 1 or below -2^63.
ParseInt(s) ==
    IF s = "" THEN [err |-> TRUE, val |-> Zero64]
    ELSE LET neg == CharAt(s, 1) = "-"
             body == IF CharAt(s, 1) \in {"+", "-"} THEN SubSeq(s, 2, Len(s)) ELSE s
             un == ParseUint(body)
             cutoff == <<32768, 0, 0, 0>>
         IN IF un.err THEN [err |-> TRUE, val |-> Zero64]
            ELSE IF ~neg /\ un.val[1] >= 32768 THEN [err |-> TRUE, val |-> Zero64]
            ELSE IF neg /\ un.val[1] >= 32768 /\ un.val # cutoff
                 THEN [err |-> TRUE, val |-> Zero64]
            ELSE [err |-> FALSE, val |-> IF neg THEN Neg64(un.val) ELSE un.val]

(***************************************************************************)
(* package time                                                            *)
(***************************************************************************)
RECURSIVE Mul10Pow(_, _)
\* w * 10^n modulo 2^64.
Mul10Pow(w, n) == IF n = 0 THEN w ELSE Mul10Pow(MulAdd10(w, 0).val, n - 1)

\* time.Duration(intVal) * time.Second: int64 nanoseconds, wrapping.
DurationSeconds(intVal) == Mul10Pow(intVal, 9)

(***************************************************************************)
(* Service.Spec: decoding of one key of specJSON.Data (the loop body)      *)
(***************************************************************************)
DomainTypeVal(byteVal) == [type |-> "phase0.DomainType", val |-> CopyInto4(byteVal)]
VersionVal(byteVal) == [type |-> "phase0.Version", val |-> CopyInto4(byteVal)]
BytesVal(byteVal) == [type |-> "[]byte", val |-> byteVal]
TimeVal(sec) == [type |-> "time.Time", val |-> sec]
DurationVal(nanos) == [type |-> "time.Duration", val |-> nanos]
Uint64Val(w) == [type |-> "uint64", val |-> w]
\* Variant: the stored string loses its 0x prefix.
StringValTrimmed(v) == [type |-> "string", val |-> TrimPrefix(v, "0x")]

StringVal(v) == [type |-> "string", val |-> v]

\* Variant: the integer rules are tried before the time and duration rules.
DecodeValueIntegerFirst(k, v) ==
    LET hexVal == HexDecodeString(TrimPrefix(v, "0x"))
        signed == ParseInt(v)
        unsigned == ParseUint(v)
    IN IF HasPrefix(k, "DOMAIN_") /\ ~hexVal.err THEN DomainTypeVal(hexVal.val)
       ELSE IF HasSuffix(k, "_FORK_VERSION") /\ ~hexVal.err THEN VersionVal(hexVal.val)
       ELSE IF HasPrefix(v, "0x") /\ ~hexVal.err THEN BytesVal(hexVal.val)
       ELSE IF v = "0" THEN Uint64Val(Zero64)
       ELSE IF ~unsigned.err /\ unsigned.val # Zero64 THEN Uint64Val(unsigned.val)
       ELSE IF HasSuffix(k, "_TIME") /\ ~signed.err /\ signed.val # Zero64
            THEN TimeVal(signed.val)
       ELSE IF (HasPrefix(k, "SECONDS_PER_") \/ k = "GENESIS_DELAY")
               /\ ~unsigned.err /\ unsigned.val # Zero64
            THEN DurationVal(DurationSeconds(unsigned.val))
       ELSE StringVal(v)

\* The value stored in config[k] for specJSON.Data[k] = v.
DecodeValue(k, v) ==
    LET hexVal == HexDecodeString(TrimPrefix(v, "0x"))
        signed == ParseInt(v)
        unsigned == ParseUint(v)
    IN IF HasPrefix(k, "DOMAIN_") /\ ~hexVal.err THEN DomainTypeVal(hexVal.val)
       ELSE IF HasSuffix(k, "_FORK_VERSION") /\ ~hexVal.err THEN VersionVal(hexVal.val)
       ELSE IF HasPrefix(v, "0x") /\ ~hexVal.err THEN BytesVal(hexVal.val)
       ELSE IF HasSuffix(k, "_TIME") /\ ~signed.err /\ signed.val # Zero64
            THEN TimeVal(signed.val)
       ELSE IF (HasPrefix(k, "SECONDS_PER_") \/ k = "GENESIS_DELAY")
               /\ ~unsigned.err /\ unsigned.val # Zero64
            THEN DurationVal(DurationSeconds(unsigned.val))
       ELSE IF v = "0" THEN Uint64Val(Zero64)
       ELSE IF ~unsigned.err /\ unsigned.val # Zero64 THEN Uint64Val(unsigned.val)
       ELSE StringVal(v)

(***************************************************************************)
(* Service.Spec: constants Lighthouse omits, added when missing            *)
(***************************************************************************)
PatchDefaults ==
    [k \in {"DOMAIN_CONTRIBUTION_AND_PROOF", "DOMAIN_SYNC_COMMITTEE",
            "DOMAIN_SYNC_COMMITTEE_SELECTION_PROOF", "SYNC_COMMITTEE_SUBNET_COUNT",
            "TARGET_AGGREGATORS_PER_SYNC_SUBCOMMITTEE"} |->
        CASE k = "DOMAIN_CONTRIBUTION_AND_PROOF" ->
                 [type |-> "phase0.DomainType", val |-> <<9, 0, 0, 0>>]
          [] k = "DOMAIN_SYNC_COMMITTEE" ->
                 [type |-> "phase0.DomainType", val |-> <<7, 0, 0, 0>>]
          [] k = "DOMAIN_SYNC_COMMITTEE_SELECTION_PROOF" ->
                 [type |-> "phase0.DomainType", val |-> <<8, 0, 0, 0>>]
          [] k = "SYNC_COMMITTEE_SUBNET_COUNT" ->
                 [type |-> "uint64", val |-> <<0, 0, 0, 4>>]
          [] k = "TARGET_AGGREGATORS_PER_SYNC_SUBCOMMITTEE" ->
                 [type |-> "uint64", val |-> <<0, 0, 0, 16>>]]

\* Variant: the defaults are written without the existence check.
ApplyPatchOverwrite(cfg) ==
    [k \in DOMAIN cfg \cup DOMAIN PatchDefaults |->
        IF k \in DOMAIN PatchDefaults THEN PatchDefaults[k] ELSE cfg[k]]

\* if _, exists := config[k]; !exists { config[k] = default }, for each key.
ApplyPatch(cfg) ==
    [k \in DOMAIN cfg \cup DOMAIN PatchDefaults |->
        IF k \in DOMAIN cfg THEN cfg[k] ELSE PatchDefaults[k]]

(***************************************************************************)
(* Inputs                                                                  *)
(***************************************************************************)
PatchKeys == DOMAIN PatchDefaults

Keys ==
    PatchKeys \cup
    {"DOMAIN_BEACON_PROPOSER", "GENESIS_FORK_VERSION", "MIN_GENESIS_TIME",
     "SECONDS_PER_SLOT", "GENESIS_DELAY", "DEPOSIT_CONTRACT_ADDRESS",
     "CONFIG_NAME", "DOMAIN_FORK_VERSION", "DOMAIN_TIME", "SECONDS_PER_TIME"}

Alphabet == {"0", "1", "7", "x", "a", "F", "g", "-", "+"}

RECURSIVE StringsUpTo(_)
\* Every string over Alphabet of length at most n.
StringsUpTo(n) ==
    IF n = 0 THEN {""}
    ELSE LET shorter == StringsUpTo(n - 1)
         IN shorter \cup {s \o c : s \in shorter, c \in Alphabet}

CoreValues ==
    {"0x01020304", "0x0102030405", "0x0A", "0x", "0xzz", "0x123", "0X01",
     "01020304", "10", "100", "0", "00", "-100", "+100", "1_000", "mainnet",
     "18446744073709551615", "18446744073709551616",
     "9223372036854775807", "9223372036854775808",
     "-9223372036854775808", "-9223372036854775809",
     "9223372036", "9223372037", "1606824000"}

Values == StringsUpTo(MaxValLen) \cup CoreValues

MultiKeys == PatchKeys \cup {"SECONDS_PER_SLOT", "CONFIG_NAME"}

MultiValues == {"0x01000000", "8", "0", "x", "12"}

\* Response bodies the decode specification starts from: every single-key
\* payload over Keys and Values, and the payloads of up to MaxKeys keys over
\* MultiKeys and MultiValues.
Payloads ==
    UNION {[{k} -> Values] : k \in Keys}
    \cup UNION {[K -> MultiValues] :
                  K \in {S \in SUBSET MultiKeys : Cardinality(S) <= MaxKeys}}

\* Response bodies the beacon node may answer a request with in the
\* concurrent specification.
FetchPayloads ==
    {<<>>,
     [k \in {"SYNC_COMMITTEE_SUBNET_COUNT"} |-> "8"],
     [k \in {"SECONDS_PER_SLOT", "GENESIS_FORK_VERSION"} |->
         IF k = "SECONDS_PER_SLOT" THEN "12" ELSE "0x00000001"]}

FetchErrors == {"failed to request spec", "failed to obtain spec", "failed to parse spec"}

Procs == 1..NumProcs

(***************************************************************************)
(* multi service: Service.Fork over doCall                                 *)
(***************************************************************************)
NilFork == "nil *spec.Fork"

\* An interface{} value: the nil interface, or a *spec.Fork (possibly a nil
\* pointer) boxed in an interface.
NilInterface == [type |-> "nil", ptr |-> NilFork]

BoxFork(fork) == [type |-> "*spec.Fork", ptr |-> fork]

\* What client.(eth2client.ForkProvider).Fork(ctx, stateID) may return.
ClientOutcomes ==
    {[fork |-> NilFork, err |-> "connection refused"],
     [fork |-> NilFork, err |-> "state not found"],
     [fork |-> NilFork, err |-> NoError],
     [fork |-> "fork 1", err |-> NoError],
     [fork |-> "fork 2", err |-> NoError]}

RECURSIVE SeqsUpTo(_, _)
\* Every sequence over S of length at most n.
SeqsUpTo(S, n) ==
    IF n = 0 THEN {<<>>}
    ELSE LET shorter == SeqsUpTo(S, n - 1)
         IN shorter \cup {Append(q, x) : q \in shorter, x \in S}

\* The closure Service.Fork hands to doCall (lines 25-31).
ForkCall(client) ==
    IF client.err # NoError
    THEN [res |-> NilInterface, err |-> client.err]
    ELSE [res |-> BoxFork(client.fork), err |-> NoError]

NoCallResult == [returned |-> FALSE, res |-> NilInterface, err |-> NoError, failed |-> <<>>]

NoForkReturn == [returned |-> FALSE, fork |-> NilFork, err |-> NoError]

\* Variant: a nil fork without error is reported as an error.
ForkResultEmptyIsError(res, err) ==
    IF err # NoError THEN [returned |-> TRUE, fork |-> NilFork, err |-> err]
    ELSE IF res = NilInterface \/ res.ptr = NilFork
         THEN [returned |-> TRUE, fork |-> NilFork, err |-> "empty response"]
    ELSE [returned |-> TRUE, fork |-> res.ptr, err |-> NoError]

\* Lines 32-38: what Service.Fork makes of doCall's return value.
ForkResult(res, err) ==
    IF err # NoError THEN [returned |-> TRUE, fork |-> NilFork, err |-> err]
    ELSE IF res = NilInterface THEN [returned |-> TRUE, fork |-> NilFork, err |-> NoError]
    ELSE [returned |-> TRUE, fork |-> res.ptr, err |-> NoError]

(***************************************************************************)
(* State                                                                   *)
(***************************************************************************)
VARIABLES
    spec,        \* s.spec: the nil map or the cached configuration
    specMutex,   \* s.specMutex: Unlocked or the goroutine holding it
    pc,          \* position of each goroutine in Service.Spec
    ret,         \* what the goroutine's last Service.Spec call returned
    synced,      \* goroutines for which the write of s.spec happens-before
    fetches,     \* number of s.get requests issued
    fails,       \* number of requests that failed or did not parse
    calls,       \* number of Service.Spec calls started
    ownFetch,    \* outcome of the request the current call issued itself
    sawFail,     \* calls that were waiting for the mutex when a request failed
    raw,         \* specJSON.Data of the holder
    config,      \* config of the holder
    todo,        \* keys of specJSON.Data the range loop has not visited
    clients,     \* multi service: outcome of each client's Fork, in order
    next,        \* doCall: index of the client to try next
    invoked,     \* doCall: indices of the clients that were called
    errs,        \* doCall: the errors of the clients that failed, in call order
    callRes,     \* doCall: its return value once it returned
    forkRet      \* Service.Fork of the multi service: its return value

specVars == <<spec, specMutex, pc, ret, synced, fetches, fails, calls, ownFetch,
              sawFail, raw, config, todo>>
forkVars == <<clients, next, invoked, errs, callRes, forkRet>>
vars == <<spec, specMutex, pc, ret, synced, fetches, fails, calls, ownFetch,
          sawFail, raw, config, todo, clients, next, invoked, errs, callRes, forkRet>>

NoReturn == [val |-> NilMap, err |-> NoError, returned |-> FALSE]

Returned(val, err) == [val |-> val, err |-> err, returned |-> TRUE]

InitFork ==
    /\ clients = <<>>
    /\ next = 1
    /\ invoked = {}
    /\ errs = <<>>
    /\ callRes = NoCallResult
    /\ forkRet = NoForkReturn

\* A freshly constructed Service: no cached spec, mutex free, no call made.
Init ==
    /\ spec = NilMap
    /\ specMutex = Unlocked
    /\ pc = [p \in Procs |-> "idle"]
    /\ ret = [p \in Procs |-> NoReturn]
    /\ synced = {}
    /\ fetches = 0
    /\ fails = 0
    /\ calls = 0
    /\ ownFetch = [p \in Procs |-> "none"]
    /\ sawFail = {}
    /\ raw = <<>>
    /\ config = <<>>
    /\ todo = {}
    /\ InitFork

(***************************************************************************)
(* Service.Spec                                                            *)
(***************************************************************************)
\* A goroutine enters Service.Spec.
Call(p) ==
    /\ pc[p] \in {"idle", "done"}
    /\ calls < MaxCalls
    /\ calls' = calls + 1
    /\ pc' = [pc EXCEPT ![p] = "l34"]
    /\ ret' = [ret EXCEPT ![p] = NoReturn]
    /\ ownFetch' = [ownFetch EXCEPT ![p] = "none"]
    /\ sawFail' = sawFail \ {p}
    /\ UNCHANGED <<spec, specMutex, synced, fetches, fails, raw, config, todo>>
    /\ UNCHANGED forkVars

\* The values the unsynchronised read of s.spec at line 34 may observe: the
\* read races with the write at line 143, so a goroutine that has not
\* acquired the mutex since that write may still observe nil.
Visible(p) == IF p \in synced THEN {spec} ELSE {NilMap, spec}

\* Lines 34-36: the check outside the mutex.
CheckUnlocked(p) ==
    /\ pc[p] = "l34"
    /\ \E seen \in Visible(p) :
          IF seen # NilMap
          THEN /\ pc' = [pc EXCEPT ![p] = "done"]
               /\ ret' = [ret EXCEPT ![p] = Returned(spec, NoError)]
          ELSE /\ pc' = [pc EXCEPT ![p] = "l38"]
               /\ ret' = ret
    /\ UNCHANGED <<spec, specMutex, synced, fetches, fails, calls, ownFetch,
                   sawFail, raw, config, todo>>
    /\ UNCHANGED forkVars

\* Variant: no second check once the mutex is held.
LockNoRecheck(p) ==
    /\ pc[p] = "l38"
    /\ specMutex = Unlocked
    /\ pc' = [pc EXCEPT ![p] = "l46"]
    /\ specMutex' = p
    /\ UNCHANGED <<ret, synced>>
    /\ UNCHANGED <<spec, fetches, fails, calls, ownFetch, sawFail, raw, config, todo>>
    /\ UNCHANGED forkVars

\* Variant: a call that waited through a failed request returns a failure
\* of its own without issuing a request.
LockSharesFailure(p) ==
    /\ pc[p] = "l38"
    /\ specMutex = Unlocked
    /\ IF spec # NilMap
       THEN /\ pc' = [pc EXCEPT ![p] = "done"]
            /\ ret' = [ret EXCEPT ![p] = Returned(spec, NoError)]
            /\ synced' = synced \cup {p}
            /\ specMutex' = Unlocked
       ELSE IF p \in sawFail
       THEN /\ pc' = [pc EXCEPT ![p] = "done"]
            /\ ret' = [ret EXCEPT ![p] = Returned(NilMap, "failed to request spec")]
            /\ specMutex' = Unlocked
            /\ synced' = synced
       ELSE /\ pc' = [pc EXCEPT ![p] = "l46"]
            /\ specMutex' = p
            /\ UNCHANGED <<ret, synced>>
    /\ UNCHANGED <<spec, fetches, fails, calls, ownFetch, sawFail, raw, config, todo>>
    /\ UNCHANGED forkVars

\* Lines 38-43: acquire the mutex and check again; when another goroutine
\* stored the spec meanwhile, return it (the deferred Unlock runs).
Lock(p) ==
    /\ pc[p] = "l38"
    /\ specMutex = Unlocked
    /\ IF spec # NilMap
       THEN /\ pc' = [pc EXCEPT ![p] = "done"]
            /\ ret' = [ret EXCEPT ![p] = Returned(spec, NoError)]
            /\ synced' = synced \cup {p}
            /\ specMutex' = Unlocked
       ELSE /\ pc' = [pc EXCEPT ![p] = "l46"]
            /\ specMutex' = p
            /\ UNCHANGED <<ret, synced>>
    /\ UNCHANGED <<spec, fetches, fails, calls, ownFetch, sawFail, raw, config, todo>>
    /\ UNCHANGED forkVars

\* Variant: the failed call leaves an empty configuration in s.spec.
FetchFailCached(p) ==
    /\ pc[p] = "l46"
    /\ \E e \in FetchErrors :
          ret' = [ret EXCEPT ![p] = Returned(NilMap, e)]
    /\ pc' = [pc EXCEPT ![p] = "done"]
    /\ specMutex' = Unlocked
    /\ spec' = MapOf(<<>>)
    /\ fetches' = fetches + 1
    /\ fails' = fails + 1
    /\ ownFetch' = [ownFetch EXCEPT ![p] = "fail"]
    /\ sawFail' = sawFail \cup {q \in Procs : pc[q] = "l38"}
    /\ UNCHANGED <<synced, calls, raw, config, todo>>
    /\ UNCHANGED forkVars

\* Lines 46-57: the request fails, has no body or does not parse; the call
\* returns the error and the deferred Unlock releases the mutex.
FetchFail(p) ==
    /\ pc[p] = "l46"
    /\ \E e \in FetchErrors :
          ret' = [ret EXCEPT ![p] = Returned(NilMap, e)]
    /\ pc' = [pc EXCEPT ![p] = "done"]
    /\ specMutex' = Unlocked
    /\ fetches' = fetches + 1
    /\ fails' = fails + 1
    /\ ownFetch' = [ownFetch EXCEPT ![p] = "fail"]
    /\ sawFail' = sawFail \cup {q \in Procs : pc[q] = "l38"}
    /\ UNCHANGED <<spec, synced, calls, raw, config, todo>>
    /\ UNCHANGED forkVars

\* Lines 46-59: the request succeeds and the body parses into specJSON.
FetchOK(p) ==
    /\ pc[p] = "l46"
    /\ \E data \in FetchPayloads :
          /\ raw' = data
          /\ todo' = DOMAIN data
    /\ config' = <<>>
    /\ pc' = [pc EXCEPT ![p] = "l60"]
    /\ fetches' = fetches + 1
    /\ ownFetch' = [ownFetch EXCEPT ![p] = "ok"]
    /\ UNCHANGED <<spec, specMutex, ret, synced, fails, calls, sawFail>>
    /\ UNCHANGED forkVars

\* Lines 60-123: one iteration of the range loop, in map order.
DecodeKey(p) ==
    /\ pc[p] = "l60"
    /\ \E k \in todo :
          /\ config' = [j \in DOMAIN config \cup {k} |->
                           IF j = k THEN DecodeValue(k, raw[k]) ELSE config[j]]
          /\ todo' = todo \ {k}
    /\ UNCHANGED <<spec, specMutex, pc, ret, synced, fetches, fails, calls,
                   ownFetch, sawFail, raw>>
    /\ UNCHANGED forkVars

\* Variant: the configuration is returned but not stored in s.spec.
StoreForgets(p) ==
    /\ pc[p] = "l60"
    /\ todo = {}
    /\ ret' = [ret EXCEPT ![p] = Returned(MapOf(ApplyPatch(config)), NoError)]
    /\ pc' = [pc EXCEPT ![p] = "done"]
    /\ specMutex' = Unlocked
    /\ UNCHANGED <<spec, synced>>
    /\ UNCHANGED <<fetches, fails, calls, ownFetch, sawFail, raw, config, todo>>
    /\ UNCHANGED forkVars

\* Lines 125-144: patch the missing constants, store the configuration in
\* s.spec and return it; the deferred Unlock releases the mutex.
Store(p) ==
    /\ pc[p] = "l60"
    /\ todo = {}
    /\ spec' = MapOf(ApplyPatch(config))
    /\ ret' = [ret EXCEPT ![p] = Returned(spec', NoError)]
    /\ pc' = [pc EXCEPT ![p] = "done"]
    /\ specMutex' = Unlocked
    /\ synced' = {p}
    /\ UNCHANGED <<fetches, fails, calls, ownFetch, sawFail, raw, config, todo>>
    /\ UNCHANGED forkVars

Next ==
    \E p \in Procs :
        \/ Call(p)
        \/ CheckUnlocked(p)
        \/ Lock(p)
        \/ FetchFail(p)
        \/ FetchOK(p)
        \/ DecodeKey(p)
        \/ Store(p)

Spec == Init /\ [][Next]_vars

(***************************************************************************)
(* Decoding of one response body: goroutine 1 holds the mutex and has just *)
(* parsed the body into specJSON.                                          *)
(***************************************************************************)
InitDecode ==
    /\ spec = NilMap
    /\ specMutex = 1
    /\ pc = [p \in Procs |-> IF p = 1 THEN "l60" ELSE "idle"]
    /\ ret = [p \in Procs |-> NoReturn]
    /\ synced = {}
    /\ fetches = 1
    /\ fails = 0
    /\ calls = 1
    /\ ownFetch = [p \in Procs |-> IF p = 1 THEN "ok" ELSE "none"]
    /\ sawFail = {}
    /\ raw \in Payloads
    /\ config = <<>>
    /\ todo = DOMAIN raw
    /\ InitFork

NextDecode == DecodeKey(1) \/ Store(1)

SpecDecode == InitDecode /\ [][NextDecode]_vars

(***************************************************************************)
(* Service.Fork of the multi service.  doCall tries the clients in their   *)
(* registration order and returns the first result that is not an error.   *)
(***************************************************************************)
InitForkCall ==
    /\ spec = NilMap
    /\ specMutex = Unlocked
    /\ pc = [p \in Procs |-> "idle"]
    /\ ret = [p \in Procs |-> NoReturn]
    /\ synced = {}
    /\ fetches = 0
    /\ fails = 0
    /\ calls = 0
    /\ ownFetch = [p \in Procs |-> "none"]
    /\ sawFail = {}
    /\ raw = <<>>
    /\ config = <<>>
    /\ todo = {}
    /\ clients \in SeqsUpTo(ClientOutcomes, MaxHandles)
    /\ next = 1
    /\ invoked = {}
    /\ errs = <<>>
    /\ callRes = NoCallResult
    /\ forkRet = NoForkReturn

\* doCall calls the closure on the next client: an error is recorded and the
\* next client is tried, anything else is returned at once.
TryClient ==
    /\ ~callRes.returned
    /\ next <= Len(clients)
    /\ invoked' = invoked \cup {next}
    /\ LET r == ForkCall(clients[next])
       IN IF r.err # NoError
          THEN /\ errs' = Append(errs, [client |-> next, err |-> r.err])
               /\ next' = next + 1
               /\ callRes' = callRes
          ELSE /\ callRes' = [returned |-> TRUE, res |-> r.res, err |-> NoError,
                              failed |-> errs]
               /\ UNCHANGED <<errs, next>>
    /\ UNCHANGED <<clients, forkRet>>
    /\ UNCHANGED specVars

\* doCall has no client left: it returns the failure of every client it
\* tried, or "unsupported" when there was none.
Exhausted ==
    /\ ~callRes.returned
    /\ next > Len(clients)
    /\ callRes' = [returned |-> TRUE, res |-> NilInterface,
                   err |-> IF Len(clients) = 0 THEN "unsupported"
                           ELSE "all clients failed",
                   failed |-> errs]
    /\ UNCHANGED <<clients, next, invoked, errs, forkRet>>
    /\ UNCHANGED specVars

\* Service.Fork returns (lines 32-38).
ForkReturn ==
    /\ callRes.returned
    /\ ~forkRet.returned
    /\ forkRet' = ForkResult(callRes.res, callRes.err)
    /\ UNCHANGED <<clients, next, invoked, errs, callRes>>
    /\ UNCHANGED specVars

NextFork == TryClient \/ Exhausted \/ ForkReturn

SpecFork == InitForkCall /\ [][NextFork]_vars

(***************************************************************************)
(* Vocabulary of the properties, stated on the text of keys and values     *)
(* without reference to the decoding operators above.                      *)
(***************************************************************************)
LowerHex == "0123456789abcdef"
UpperHex == "0123456789ABCDEF"

IsHexChar(c) == \E n \in 1..16 : SubSeq(LowerHex, n, n) = c \/ SubSeq(UpperHex, n, n) = c

NibbleOf(c) ==
    CHOOSE n \in 0..15 : SubSeq(LowerHex, n + 1, n + 1) = c \/ SubSeq(UpperHex, n + 1, n + 1) = c

Has0x(v) == Len(v) >= 2 /\ SubSeq(v, 1, 2) = "0x"

HexBody(v) == IF Has0x(v) THEN SubSeq(v, 3, Len(v)) ELSE v

ValidHex(v) ==
    /\ Len(HexBody(v)) % 2 = 0
    /\ \A i \in 1..Len(HexBody(v)) : IsHexChar(SubSeq(HexBody(v), i, i))

HexByte(v, i) ==
    16 * NibbleOf(SubSeq(HexBody(v), 2 * i - 1, 2 * i - 1))
       + NibbleOf(SubSeq(HexBody(v), 2 * i, 2 * i))

\* The decoded bytes, left-aligned in four bytes and zero-padded on the right.
LeftAligned4(v) ==
    <<IF Len(HexBody(v)) >= 2 THEN HexByte(v, 1) ELSE 0,
      IF Len(HexBody(v)) >= 4 THEN HexByte(v, 2) ELSE 0,
      IF Len(HexBody(v)) >= 6 THEN HexByte(v, 3) ELSE 0,
      IF Len(HexBody(v)) >= 8 THEN HexByte(v, 4) ELSE 0>>

IsDomainKey(k) == Len(k) >= 7 /\ SubSeq(k, 1, 7) = "DOMAIN_"
IsForkVersionKey(k) == Len(k) >= 13 /\ SubSeq(k, Len(k) - 12, Len(k)) = "_FORK_VERSION"
IsTimeKey(k) == Len(k) >= 5 /\ SubSeq(k, Len(k) - 4, Len(k)) = "_TIME"
IsDurationKey(k) ==
    (Len(k) >= 12 /\ SubSeq(k, 1, 12) = "SECONDS_PER_") \/ k = "GENESIS_DELAY"

AllDigits(v) == v # "" /\ \A i \in 1..Len(v) : SubSeq(v, i, i) \in Digits

RECURSIVE StripZeros(_)
StripZeros(v) ==
    IF Len(v) > 1 /\ SubSeq(v, 1, 1) = "0" THEN StripZeros(SubSeq(v, 2, Len(v))) ELSE v

DigitRank(c) == CHOOSE n \in 0..9 : SubSeq(LowerHex, n + 1, n + 1) = c

RECURSIVE NotAbove(_, _)
\* For digit strings of equal length: a <= b.
NotAbove(a, b) ==
    IF a = "" THEN TRUE
    ELSE IF DigitRank(SubSeq(a, 1, 1)) < DigitRank(SubSeq(b, 1, 1)) THEN TRUE
    ELSE IF DigitRank(SubSeq(a, 1, 1)) > DigitRank(SubSeq(b, 1, 1)) THEN FALSE
    ELSE NotAbove(SubSeq(a, 2, Len(a)), SubSeq(b, 2, Len(b)))

\* The digit string v denotes a number that is at most the number limit denotes.
AtMost(v, limit) ==
    \/ Len(StripZeros(v)) < Len(limit)
    \/ Len(StripZeros(v)) = Len(limit) /\ NotAbove(StripZeros(v), limit)

\* v is a base-10 unsigned 64-bit integer other than zero.
NonzeroUnsigned(v) ==
    AllDigits(v) /\ StripZeros(v) # "0" /\ AtMost(v, "18446744073709551615")

Magnitude(v) ==
    IF v # "" /\ SubSeq(v, 1, 1) \in {"+", "-"} THEN SubSeq(v, 2, Len(v)) ELSE v

Negative(v) == v # "" /\ SubSeq(v, 1, 1) = "-"

\* v is a base-10 signed 64-bit integer other than zero.
NonzeroSigned(v) ==
    /\ AllDigits(Magnitude(v))
    /\ StripZeros(Magnitude(v)) # "0"
    /\ AtMost(Magnitude(v), IF Negative(v) THEN "9223372036854775808"
                            ELSE "9223372036854775807")

RECURSIVE NumberOf(_)
\* The number a short digit string denotes.
NumberOf(v) ==
    IF v = "" THEN 0
    ELSE 10 * NumberOf(SubSeq(v, 1, Len(v) - 1)) + DigitRank(SubSeq(v, Len(v), Len(v)))

\* Digit strings short enough for their number to be below 2^31.
Short(v) == Len(v) <= 9

\* The 64-bit two's complement word of the integer n, |n| < 2^31.
WordOf(n) ==
    IF n >= 0 THEN <<0, 0, n \div 65536, n % 65536>>
    ELSE <<65535, 65535, 65535 - ((-n - 1) \div 65536), 65535 - ((-n - 1) % 65536)>>

SignedNumberOf(v) ==
    IF Negative(v) THEN -NumberOf(Magnitude(v)) ELSE NumberOf(Magnitude(v))

\* n seconds in nanoseconds as a 64-bit word, n < 100:
\* 10^9 = 15258 * 2^16 + 51712.
SecondsInNanos(n) ==
    <<0,
      (n * 15258 + ((n * 51712) \div 65536)) \div 65536,
      (n * 15258 + ((n * 51712) \div 65536)) % 65536,
      (n * 51712) % 65536>>

\* Rules 1-3 of the decoding list apply to the pair.
HexRuleApplies(k, v) ==
    \/ IsDomainKey(k) /\ ValidHex(v)
    \/ IsForkVersionKey(k) /\ ValidHex(v)
    \/ Has0x(v) /\ ValidHex(v)

\* The type the ordered rule list 1-8 gives the pair, first match wins.
RuleListType(k, v) ==
    CASE IsDomainKey(k) /\ ValidHex(v) -> "phase0.DomainType"
      [] ~(IsDomainKey(k) /\ ValidHex(v)) /\ IsForkVersionKey(k) /\ ValidHex(v) ->
             "phase0.Version"
      [] ~IsDomainKey(k) /\ ~IsForkVersionKey(k) /\ Has0x(v) /\ ValidHex(v) -> "[]byte"
      [] ~HexRuleApplies(k, v) /\ IsTimeKey(k) /\ NonzeroSigned(v) -> "time.Time"
      [] ~HexRuleApplies(k, v) /\ ~(IsTimeKey(k) /\ NonzeroSigned(v))
            /\ IsDurationKey(k) /\ NonzeroUnsigned(v) -> "time.Duration"
      [] ~HexRuleApplies(k, v) /\ ~(IsTimeKey(k) /\ NonzeroSigned(v))
            /\ ~(IsDurationKey(k) /\ NonzeroUnsigned(v))
            /\ (v = "0" \/ NonzeroUnsigned(v)) -> "uint64"
      [] OTHER -> "string"

TypeNames ==
    {"phase0.DomainType", "phase0.Version", "[]byte", "time.Time", "time.Duration",
     "uint64", "string"}

\* The keys of the response body whose decoded value is known in this state,
\* with that value: those the loop has visited, before and after the store.
Decoded == DOMAIN config

(***************************************************************************)
(* Properties of the decoding and patching (checked under SpecDecode)      *)
(***************************************************************************)
DocumentedDefault(k) ==
    CASE k = "DOMAIN_CONTRIBUTION_AND_PROOF" ->
             [type |-> "phase0.DomainType", val |-> <<9, 0, 0, 0>>]
      [] k = "DOMAIN_SYNC_COMMITTEE" ->
             [type |-> "phase0.DomainType", val |-> <<7, 0, 0, 0>>]
      [] k = "DOMAIN_SYNC_COMMITTEE_SELECTION_PROOF" ->
             [type |-> "phase0.DomainType", val |-> <<8, 0, 0, 0>>]
      [] k = "SYNC_COMMITTEE_SUBNET_COUNT" -> [type |-> "uint64", val |-> WordOf(4)]
      [] k = "TARGET_AGGREGATORS_PER_SYNC_SUBCOMMITTEE" ->
             [type |-> "uint64", val |-> WordOf(16)]

FivePatchedKeys ==
    {"DOMAIN_CONTRIBUTION_AND_PROOF", "DOMAIN_SYNC_COMMITTEE",
     "DOMAIN_SYNC_COMMITTEE_SELECTION_PROOF", "SYNC_COMMITTEE_SUBNET_COUNT",
     "TARGET_AGGREGATORS_PER_SYNC_SUBCOMMITTEE"}

\* C5: once the configuration is stored, each of the five patched keys is in
\* it; a key the payload lacks has its documented default, a key the payload
\* has keeps the value decoded from the payload; every configuration
\* returned without error contains the five keys.
C5_PatchIffAbsent ==
    /\ spec # NilMap =>
          \A k \in FivePatchedKeys :
             /\ k \in DOMAIN spec.entries
             /\ k \notin DOMAIN raw => spec.entries[k] = DocumentedDefault(k)
             /\ k \in DOMAIN raw =>
                   /\ spec.entries[k] = config[k]
                   /\ spec.entries[k].type = RuleListType(k, raw[k])
    /\ \A p \in Procs :
          ret[p].returned /\ ret[p].err = NoError =>
             FivePatchedKeys \subseteq DOMAIN ret[p].val.entries

\* A payload with SYNC_COMMITTEE_SUBNET_COUNT = "8" and without
\* DOMAIN_SYNC_COMMITTEE was stored: the first keeps 8, the second is 7,0,0,0.
C5_Witness ==
    /\ spec # NilMap
    /\ "SYNC_COMMITTEE_SUBNET_COUNT" \in DOMAIN raw
    /\ raw["SYNC_COMMITTEE_SUBNET_COUNT"] = "8"
    /\ spec.entries["SYNC_COMMITTEE_SUBNET_COUNT"] = [type |-> "uint64", val |-> WordOf(8)]
    /\ "DOMAIN_SYNC_COMMITTEE" \notin DOMAIN raw
    /\ spec.entries["DOMAIN_SYNC_COMMITTEE"].val = <<7, 0, 0, 0>>

\* C6: a DOMAIN_ key with a valid hex value (after an optional 0x) decodes
\* to the 4-byte domain type holding the decoded bytes left-aligned and
\* zero-padded, never to an integer or a string.
C6_DomainLeftAligned ==
    /\ \A k \in Decoded :
          IsDomainKey(k) /\ ValidHex(raw[k]) =>
             config[k] = [type |-> "phase0.DomainType", val |-> LeftAligned4(raw[k])]
    /\ spec # NilMap =>
          \A k \in DOMAIN raw :
             IsDomainKey(k) /\ ValidHex(raw[k]) =>
                /\ spec.entries[k].type = "phase0.DomainType"
                /\ spec.entries[k].val = LeftAligned4(raw[k])

\* DOMAIN_BEACON_PROPOSER = "10", also a decimal integer, was stored as the
\* domain type 0x10,0,0,0.
C6_Witness ==
    /\ spec # NilMap
    /\ "DOMAIN_BEACON_PROPOSER" \in DOMAIN raw
    /\ raw["DOMAIN_BEACON_PROPOSER"] = "10"
    /\ spec.entries["DOMAIN_BEACON_PROPOSER"] =
          [type |-> "phase0.DomainType", val |-> <<16, 0, 0, 0>>]

\* C7: for a _TIME key that no hex rule takes, "0" decodes to the unsigned
\* integer 0 and a value that is a nonzero signed integer n decodes to the
\* time point n seconds from the epoch.
C7_TimeKeys ==
    \A k \in Decoded :
       IsTimeKey(k) /\ ~HexRuleApplies(k, raw[k]) =>
          /\ raw[k] = "0" => config[k] = [type |-> "uint64", val |-> WordOf(0)]
          /\ NonzeroSigned(raw[k]) =>
                /\ config[k].type = "time.Time"
                /\ Short(Magnitude(raw[k])) => config[k].val = WordOf(SignedNumberOf(raw[k]))

\* MIN_GENESIS_TIME = "100" was stored as the time point 100.
C7_Witness ==
    /\ spec # NilMap
    /\ "MIN_GENESIS_TIME" \in DOMAIN raw
    /\ raw["MIN_GENESIS_TIME"] = "100"
    /\ spec.entries["MIN_GENESIS_TIME"] = [type |-> "time.Time", val |-> <<0, 0, 0, 100>>]

\* MIN_GENESIS_TIME = "0" was stored as the unsigned integer 0.
C7_WitnessZero ==
    /\ spec # NilMap
    /\ "MIN_GENESIS_TIME" \in DOMAIN raw
    /\ raw["MIN_GENESIS_TIME"] = "0"
    /\ spec.entries["MIN_GENESIS_TIME"] = [type |-> "uint64", val |-> <<0, 0, 0, 0>>]

\* C8: decoding is total: the loop has given every visited key exactly one
\* typed value, a call that parsed its response returns without error, the
\* stored configuration has every key of the payload, and a pair that none
\* of rules 1-7 takes is stored as its raw string.
C8_DecodeTotal ==
    /\ Decoded = DOMAIN raw \ todo
    /\ \A k \in Decoded :
          /\ config[k].type \in TypeNames
          /\ RuleListType(k, raw[k]) = "string" => config[k] = [type |-> "string", val |-> raw[k]]
    /\ \A p \in Procs :
          ownFetch[p] = "ok" /\ ret[p].returned =>
             /\ ret[p].err = NoError
             /\ DOMAIN raw \subseteq DOMAIN ret[p].val.entries
             /\ \A k \in DOMAIN raw : ret[p].val.entries[k] = config[k]

\* CONFIG_NAME = "mainnet" and nothing else was returned as the string "mainnet".
C8_Witness ==
    /\ ret[1].returned
    /\ ret[1].err = NoError
    /\ DOMAIN raw = {"CONFIG_NAME"}
    /\ raw["CONFIG_NAME"] = "mainnet"
    /\ ret[1].val.entries["CONFIG_NAME"] = [type |-> "string", val |-> "mainnet"]

\* C10: every decoded pair has the type the ordered rule list 1-8 gives it;
\* where the number is short enough to state, the duration is that many
\* seconds in nanoseconds and the integer is that number.
C10_RuleOrder ==
    \A k \in Decoded :
       /\ config[k].type = RuleListType(k, raw[k])
       /\ config[k].type = "[]byte" =>
             /\ Len(config[k].val) * 2 = Len(HexBody(raw[k]))
             /\ \A i \in 1..Len(config[k].val) : config[k].val[i] = HexByte(raw[k], i)
       /\ config[k].type = "uint64" /\ Short(raw[k]) => config[k].val = WordOf(NumberOf(raw[k]))
       /\ config[k].type = "time.Duration" /\ Len(raw[k]) <= 2 =>
             config[k].val = SecondsInNanos(NumberOf(raw[k]))

\* A 0x value on a _TIME key was decoded as bytes and a decimal value on a
\* SECONDS_PER_ key as a duration.
C10_Witness ==
    /\ spec # NilMap
    /\ \/ /\ "MIN_GENESIS_TIME" \in DOMAIN raw
          /\ raw["MIN_GENESIS_TIME"] = "0x0A"
          /\ spec.entries["MIN_GENESIS_TIME"] = [type |-> "[]byte", val |-> <<10>>]
       \/ /\ "SECONDS_PER_TIME" \in DOMAIN raw
          /\ raw["SECONDS_PER_TIME"] = "0x0A"
          /\ spec.entries["SECONDS_PER_TIME"] = [type |-> "[]byte", val |-> <<10>>]

(***************************************************************************)
(* Properties of the cached fetch (checked under Spec)                     *)
(***************************************************************************)
\* C1: as long as no request has failed, the calls that have returned all
\* returned the same configuration without error, and exactly one request
\* was issued for them, whatever the interleaving.
C1_FetchedOnce ==
    fails = 0 /\ (\E p \in Procs : ret[p].returned) =>
       /\ fetches = 1
       /\ \A p \in Procs :
             ret[p].returned => ret[p].err = NoError /\ ~ret[p].val.isNil
       /\ \A p, q \in Procs :
             ret[p].returned /\ ret[q].returned => ret[p].val = ret[q].val

\* Every goroutine made its call, none again, no request failed, and all of
\* them have returned: one of them fetched, the others did not.
C1_Witness ==
    /\ calls = NumProcs
    /\ fails = 0
    /\ \A p \in Procs : ret[p].returned
    /\ Cardinality({p \in Procs : ownFetch[p] = "ok"}) = 1
    /\ fetches = 1

\* C2: a call whose request fails returns an error and no configuration,
\* leaves the cache unset and releases the mutex; an error is only ever
\* returned by the call whose own request failed; and a call that acquires
\* the mutex while the cache is unset issues a request of its own, also
\* after earlier failures.
C2_FailureNotCached ==
    /\ [](\A p \in Procs :
            /\ ret[p].returned /\ ret[p].err # NoError =>
                  ret[p].val = NilMap /\ ownFetch[p] = "fail"
            /\ ownFetch[p] = "fail" => ret[p].returned /\ ret[p].err \in FetchErrors)
    /\ [][fails' > fails => spec = NilMap /\ spec' = NilMap /\ specMutex' = Unlocked]_vars
    /\ [][\A p \in Procs :
            /\ (pc[p] = "l38" /\ pc'[p] # "l38" /\ spec = NilMap) => pc'[p] = "l46"
            /\ (pc[p] = "l46" /\ pc'[p] # "l46") => fetches' = fetches + 1]_vars

\* After a failed request, a later call issued its own request, which
\* succeeded, and the configuration is now cached.
C2_Witness ==
    /\ fails >= 1
    /\ \E p \in Procs : ret[p].returned /\ ret[p].err = "failed to parse spec"
    /\ \E q \in Procs : ownFetch[q] = "ok" /\ ret[q].returned /\ ret[q].val = spec
    /\ fetches = fails + 1

\* C3 as stated: a call that was waiting for the mutex when the holder's
\* request failed returns a failure without issuing a request itself.
C3_WaitersReceiveFailure ==
    \A q \in Procs :
       q \in sawFail /\ ret[q].returned => ret[q].err # NoError /\ ownFetch[q] = "none"

\* C3 amended: when a request fails the cache stays unset and the failure
\* goes to the call that issued it; a call that was waiting for the mutex at
\* that moment returns an error only when its own request failed, and
\* otherwise returns the configuration, fetched by itself or cached by
\* another call meanwhile.
C3_WaitersRetry ==
    /\ [](\A q \in Procs :
            q \in sawFail /\ ret[q].returned =>
               \/ ownFetch[q] = "fail" /\ ret[q].err # NoError /\ ret[q].val = NilMap
               \/ ownFetch[q] \in {"ok", "none"} /\ ret[q].err = NoError
                     /\ spec # NilMap /\ ret[q].val = spec)
    /\ [][fails' > fails => spec' = NilMap]_vars
    /\ [][\A q \in Procs :
            q \in sawFail' /\ q \notin sawFail => pc'[q] = "l38" /\ ~ret'[q].returned]_vars

\* A call that waited through another call's failure fetched for itself and
\* returned the configuration.
C3_Witness ==
    \E q \in Procs :
       /\ q \in sawFail
       /\ ret[q].returned
       /\ ownFetch[q] = "ok"
       /\ ret[q].err = NoError
       /\ ret[q].val = spec

\* The state of the cached value.
CacheState ==
    IF spec # NilMap THEN "set"
    ELSE IF \E p \in Procs : pc[p] \in {"l46", "l60"} THEN "computing"
    ELSE "unset"

Answering == {i \in 1..Len(clients) : clients[i].err = NoError}

FirstAnswering == CHOOSE i \in Answering : \A j \in Answering : i <= j

\* C9: when some client answers without error, Fork returns the answer of
\* the first such client in registration order, an empty answer as a nil
\* fork with no error, and exactly the clients up to that one were called.
C9_FirstSuccess ==
    /\ \A i \in invoked : \A j \in 1..(i - 1) : j \in invoked /\ clients[j].err # NoError
    /\ forkRet.returned /\ Answering # {} =>
          /\ forkRet.err = NoError
          /\ forkRet.fork = clients[FirstAnswering].fork
          /\ invoked = 1..FirstAnswering

\* A errors, B answers with nothing, C would answer with a fork: Fork
\* returned nil and no error, and C was not called.
C9_Witness ==
    /\ Len(clients) = 3
    /\ clients[1].err # NoError
    /\ clients[2] = [fork |-> NilFork, err |-> NoError]
    /\ clients[3] = [fork |-> "fork 1", err |-> NoError]
    /\ forkRet = [returned |-> TRUE, fork |-> NilFork, err |-> NoError]
    /\ invoked = {1, 2}

====
